---- MODULE Spec2Model ----
(***************************************************************************)
(* github-lang-rank: the aggregation-and-rendering pipeline of main.go.    *)
(* Strings are sequences of byte values, so that strings.ToLower and Go's  *)
(* bytewise string order are computed rather than assumed.  A Go map is a  *)
(* function; the order in which a `range` visits it is an arbitrary        *)
(* enumeration of its keys, chosen anew by every loop.                     *)
(***************************************************************************)
EXTENDS Integers, Sequences, FiniteSets, TLC

\* ------------------------------------------------------------------ bounds
MaxRepos == 2
MaxFetch == 3
MaxBytes == 2
MaxTop == 3
MaxRanked == 10
BigBytes == 600

\* ----------------------------------------------------------------- strings
sGo == <<71, 111>>
sgo == <<103, 111>>
sC == <<67>>
sTeX == <<84, 101, 88>>
stex == <<116, 101, 120>>
sTex == <<84, 101, 120>>
sOther == <<79, 116, 104, 101, 114>>

\* strings.ToLower on ASCII text
ToLower(s) == [i \in DOMAIN s |-> IF s[i] >= 65 /\ s[i] <= 90 THEN s[i] + 32 ELSE s[i]]

Min(a, b) == IF a < b THEN a ELSE b

\* Go's `<` on strings: bytewise lexicographic, a proper prefix is smaller
StrLess(a, b) ==
    \/ \E k \in 1..Min(Len(a), Len(b)) :
          /\ a[k] < b[k]
          /\ \A j \in 1..(k - 1) : a[j] = b[j]
    \/ /\ Len(a) < Len(b)
       /\ \A j \in 1..Len(a) : a[j] = b[j]

\* ------------------------------------------------------------------- maps
EmptyMap == <<>>

\* the orders in which a range loop may visit the keys of map m
IterOrders(m) ==
    {o \in [1..Cardinality(DOMAIN m) -> DOMAIN m] :
        \A i, j \in DOMAIN o : i # j => o[i] # o[j]}

RECURSIVE SumBytes(_)
SumBytes(s) == IF s = <<>> THEN 0 ELSE Head(s).Bytes + SumBytes(Tail(s))

Swap(s, i, j) == [s EXCEPT ![i] = s[j], ![j] = s[i]]

\* ------------------------------------------------------- fetchLanguages
\* total[lang] += bytes for every entry of one repository's language map
MergeOverwrite(total, langs) ==
    [l \in DOMAIN total \cup DOMAIN langs |->
        IF l \in DOMAIN langs THEN langs[l] ELSE total[l]]

MergeLangs(total, langs) ==
    [l \in DOMAIN total \cup DOMAIN langs |->
        (IF l \in DOMAIN total THEN total[l] ELSE 0)
      + (IF l \in DOMAIN langs THEN langs[l] ELSE 0)]

\* the accumulator after the loop has run over the maps in ms, in order
RECURSIVE Aggregate(_, _)
Aggregate(acc0, ms) ==
    IF ms = <<>> THEN acc0 ELSE Aggregate(MergeLangs(acc0, Head(ms)), Tail(ms))

\* -------------------------------------------------------- rankLanguages
lessNoTie(a, b) == a.Bytes > b.Bytes

\* the comparison handed to sort.Slice
less(a, b) ==
    IF a.Bytes = b.Bytes THEN StrLess(a.Lang, b.Lang) ELSE a.Bytes > b.Bytes

\* sort.Slice on a short slice is an insertion sort: element j moves down
\* while it is less than its left neighbour
RECURSIVE SiftDown(_, _)
SiftDown(s, j) ==
    IF j > 1 /\ less(s[j], s[j - 1]) THEN SiftDown(Swap(s, j, j - 1), j - 1) ELSE s

RECURSIVE InsertionSort(_, _)
InsertionSort(s, i) ==
    IF i > Len(s) THEN s ELSE InsertionSort(SiftDown(s, i), i + 1)

SortSlice(s) == InsertionSort(s, 2)

\* order: the order in which the range loop visits total
rankLanguages(total, order) ==
    SortSlice([i \in DOMAIN order |-> [Lang |-> order[i], Bytes |-> total[order[i]]]])

\* -------------------------------------------------------- collapseOthers
collapseSkipOne(ranked, top, showOther) ==
    IF top <= 0 \/ Len(ranked) <= top
    THEN ranked
    ELSE LET keep == SubSeq(ranked, 1, top)
             otherBytes == SumBytes(SubSeq(ranked, top + 2, Len(ranked)))
         IN IF ~showOther
            THEN keep
            ELSE IF otherBytes > 0
                 THEN Append(keep, [Lang |-> sOther, Bytes |-> otherBytes])
                 ELSE keep

collapseNoFlag(ranked, top, showOther) ==
    IF top <= 0 \/ Len(ranked) <= top
    THEN ranked
    ELSE LET keep == SubSeq(ranked, 1, top)
             otherBytes == SumBytes(SubSeq(ranked, top + 1, Len(ranked)))
         IN IF otherBytes > 0
            THEN Append(keep, [Lang |-> sOther, Bytes |-> otherBytes])
            ELSE keep

collapseOthers(ranked, top, showOther) ==
    IF top <= 0 \/ Len(ranked) <= top
    THEN ranked
    ELSE LET keep == SubSeq(ranked, 1, top)
             otherBytes == SumBytes(SubSeq(ranked, top + 1, Len(ranked)))
         IN IF ~showOther
            THEN keep
            ELSE IF otherBytes > 0
                 THEN Append(keep, [Lang |-> sOther, Bytes |-> otherBytes])
                 ELSE keep

\* --------------------------------------------------------- applyExcludes
\* normalized[strings.ToLower(item)] = item, a later term replacing an earlier
RECURSIVE Normalize(_, _)
Normalize(normalized, excludes) ==
    IF excludes = <<>>
    THEN normalized
    ELSE LET item == Head(excludes)
             key == ToLower(item)
         IN Normalize([k \in DOMAIN normalized \cup {key} |->
                          IF k = key THEN item ELSE normalized[k]],
                      Tail(excludes))

\* sort.Strings on a short slice: insertion sort by Go's string order
RECURSIVE SiftDownStr(_, _)
SiftDownStr(s, j) ==
    IF j > 1 /\ StrLess(s[j], s[j - 1])
    THEN SiftDownStr(Swap(s, j, j - 1), j - 1)
    ELSE s

RECURSIVE InsertionSortStr(_, _)
InsertionSortStr(s, i) ==
    IF i > Len(s) THEN s ELSE InsertionSortStr(SiftDownStr(s, i), i + 1)

SortStrings(s) == InsertionSortStr(s, 2)

\* the removed slice after the loop has visited order[i..]
RECURSIVE RemovedFrom(_, _, _, _)
RemovedFrom(normalized, order, i, removed) ==
    IF i > Len(order)
    THEN removed
    ELSE LET key == ToLower(order[i])
         IN RemovedFrom(normalized, order, i + 1,
                        IF key \in DOMAIN normalized
                        THEN Append(removed, normalized[key])
                        ELSE removed)

\* the map and the returned slice after applyExcludes(total, excludes)
applyExcludes(total, excludes, order) ==
    IF Len(excludes) = 0
    THEN [total |-> total, removed |-> <<>>]
    ELSE LET normalized == Normalize(EmptyMap, excludes)
             kept == {l \in DOMAIN total : ToLower(l) \notin DOMAIN normalized}
         IN [total |-> [l \in kept |-> total[l]],
             removed |-> SortStrings(RemovedFrom(normalized, order, 1, <<>>))]

\* -------------------------------------------------------------- writeSVG
width == 640
height == 320
cardPadding == 28
maxCols == 3
headerHeight == 24
headerGap == 18
barHeight == 14
barGap == 22
tileHeight == 72
tileGap == 16
footerHeightSet == 28
headerBaseline == 18
noteGap == 20
noteMargin == 18

barX == cardPadding
barWidth == width - cardPadding * 2

NoDataErr == "no language data to chart"
WriteErr == "write failed"
NoErr == ""

\* Go's integer division truncates toward zero
GoDiv(a, b) == IF a >= 0 THEN a \div b ELSE -((-a) \div b)

\* The quotients q for which float64(584) * (float64(q) / float64(584)) falls
\* just below q, so that the conversion to int yields q - 1.
FloatShort ==
    {191, 199, 207, 215, 309, 325, 341, 357,
     382, 398, 414, 430, 455, 471, 487, 503}

\* int(float64(barWidth) * (float64(item.Bytes) / float64(totalBytes))):
\* the floor of the exact value, except where the exact value is a whole
\* number that the two roundings undershoot
segmentWidth(bytes, totalBytes) ==
    LET q == (barWidth * bytes) \div totalBytes
        exact == (barWidth * bytes) % totalBytes = 0
    IN IF exact /\ q \in FloatShort THEN q - 1 ELSE q

\* the bar loop from entry i on, accumX being the x of the next segment
RECURSIVE BarFrom(_, _, _, _, _)
BarFrom(ranked, totalBytes, i, accumX, segs) ==
    IF i > Len(ranked)
    THEN segs
    ELSE LET w0 == segmentWidth(ranked[i].Bytes, totalBytes)
         IN IF w0 = 0
            THEN BarFrom(ranked, totalBytes, i + 1, accumX, segs)
            ELSE LET w == IF i = Len(ranked) THEN barX + barWidth - accumX ELSE w0
                 IN BarFrom(ranked, totalBytes, i + 1, accumX + w,
                            Append(segs, [x |-> accumX, width |-> w, entry |-> i]))

LayoutNoClip(n, hasNote) ==
    LET cols == IF n < maxCols THEN n ELSE maxCols
        rows == GoDiv(n + cols - 1, cols)
        footerHeight == IF hasNote THEN footerHeightSet ELSE 0
        gridHeight == rows * tileHeight + (rows - 1) * tileGap
        contentHeight ==
            headerHeight + headerGap + barHeight + barGap + gridHeight + footerHeight
        centred == GoDiv(height - contentHeight, 2)
        topOffset == IF centred < cardPadding THEN cardPadding ELSE centred
        barY == topOffset + headerHeight + headerGap
        gridTop == barY + barHeight + barGap
        gridWidth == width - cardPadding * 2
    IN [cols |-> cols, rows |-> rows, gridHeight |-> gridHeight,
        topOffset |-> topOffset, headerTextY |-> topOffset + headerBaseline,
        barY |-> barY, gridTop |-> gridTop,
        tileWidth |-> GoDiv(gridWidth - (cols - 1) * tileGap, cols),
        noteY |-> gridTop + gridHeight + noteGap]

\* the layout figures of writeSVG for n >= 1 entries
Layout(n, hasNote) ==
    LET cols == IF n < maxCols THEN n ELSE maxCols
        rows == GoDiv(n + cols - 1, cols)
        footerHeight == IF hasNote THEN footerHeightSet ELSE 0
        gridHeight == rows * tileHeight + (rows - 1) * tileGap
        contentHeight ==
            headerHeight + headerGap + barHeight + barGap + gridHeight + footerHeight
        centred == GoDiv(height - contentHeight, 2)
        topOffset == IF centred < cardPadding THEN cardPadding ELSE centred
        barY == topOffset + headerHeight + headerGap
        gridTop == barY + barHeight + barGap
        gridWidth == width - cardPadding * 2
        below == gridTop + gridHeight + noteGap
    IN [cols |-> cols, rows |-> rows, gridHeight |-> gridHeight,
        topOffset |-> topOffset, headerTextY |-> topOffset + headerBaseline,
        barY |-> barY, gridTop |-> gridTop,
        tileWidth |-> GoDiv(gridWidth - (cols - 1) * tileGap, cols),
        noteY |-> IF below > height - noteMargin THEN height - noteMargin ELSE below]

\* the tile rectangles, one per entry
Tiles(ranked, lay) ==
    [i \in DOMAIN ranked |->
        [x |-> cardPadding + ((i - 1) % lay.cols) * (lay.tileWidth + tileGap),
         y |-> lay.gridTop + ((i - 1) \div lay.cols) * (tileHeight + tileGap),
         Lang |-> ranked[i].Lang, Bytes |-> ranked[i].Bytes]]

NoDoc == [empty |-> TRUE]

\* the document writeSVG has in its buffer when it reaches os.WriteFile
Document(ranked, excluded, segs) ==
    LET lay == Layout(Len(ranked), Len(excluded) > 0)
    IN [empty |-> FALSE, layout |-> lay, segments |-> segs,
        tiles |-> Tiles(ranked, lay), hasNote |-> Len(excluded) > 0,
        note |-> excluded]

writeSVGNoZeroCheck(ranked, excluded) ==
    IF Len(ranked) = 0
    THEN [err |-> NoDataErr, doc |-> NoDoc]
    ELSE LET totalBytes == SumBytes(ranked)
         IN [err |-> NoErr,
             doc |-> Document(ranked, excluded,
                        IF totalBytes = 0 THEN <<>>
                        ELSE BarFrom(ranked, totalBytes, 1, barX, <<>>))]

\* writeSVG up to the point where the file is written: the error it returns
\* before that, or the document it is about to write
writeSVG(ranked, excluded) ==
    IF Len(ranked) = 0
    THEN [err |-> NoDataErr, doc |-> NoDoc]
    ELSE LET totalBytes == SumBytes(ranked)
         IN IF totalBytes = 0
            THEN [err |-> NoDataErr, doc |-> NoDoc]
            ELSE [err |-> NoErr,
                  doc |-> Document(ranked, excluded,
                                   BarFrom(ranked, totalBytes, 1, barX, <<>>))]

\* ================================================================= state
VARIABLES
    pc,         \* where main is
    cfg,        \* merged: the configuration after mergeConfig
    repos,      \* what fetchRepos returned
    filtered,   \* the repositories kept by the fork/archived filter
    idx,        \* fetchLanguages: position of the loop in its repos argument
    acc,        \* fetchLanguages: its local map `total`, as the loop left it
    lookups,    \* the language lookups issued so far, with their answers
    total,      \* main's total: [nil, m]
    excluded,   \* main's excluded
    ranked,     \* main's ranked
    printed,    \* what printTable has written to standard output
    file,       \* the content of the output path
    err         \* what exitWith reported

vars == <<pc, cfg, repos, filtered, idx, acc, lookups, total, excluded, ranked,
          printed, file, err>>

\* ----------------------------------------------------------------- inputs
RepoNames == <<"o/r1", "o/r2", "o/r3", "o/r4">>

\* the repository lists the Repository Source may return
RepoLists ==
    UNION {{rs \in [1..n -> [FullName : {RepoNames[k] : k \in 1..n},
                             Fork : BOOLEAN, Archived : BOOLEAN]] :
                \A i \in 1..n : rs[i].FullName = RepoNames[i]} : n \in 0..MaxRepos}

\* all language maps over a set of names with byte counts 0..b
LangMaps(names, b) == UNION {[d -> 0..b] : d \in SUBSET names}

Fail == [ok |-> FALSE, langs |-> EmptyMap]
Answer(m) == [ok |-> TRUE, langs |-> m]

\* the answers the Language Source gives in the whole-run specification
PipeAnswers ==
    {Fail,
     Answer((sGo :> MaxBytes) @@ (stex :> 1)),
     Answer(stex :> 1),
     Answer(stex :> 0)}

ExcludeLists == {<<>>, <<sTeX>>, <<sgo, sTeX>>}

Configs ==
    [Username : {"", "octocat"}, IncludeForks : BOOLEAN, IncludeArchived : BOOLEAN,
     Top : -1..MaxTop, ShowOther : BOOLEAN, Exclude : ExcludeLists]

NoConfig ==
    [Username |-> "", IncludeForks |-> FALSE, IncludeArchived |-> FALSE,
     Top |-> 0, ShowOther |-> TRUE, Exclude |-> <<>>]

NilMap == [nil |-> TRUE, m |-> EmptyMap]
NoError == [msg |-> "", repo |-> ""]
NotPrinted == [done |-> FALSE, rows |-> <<>>]

Init ==
    /\ pc = "start"
    /\ cfg = NoConfig
    /\ repos = <<>>
    /\ filtered = <<>>
    /\ idx = 1
    /\ acc = EmptyMap
    /\ lookups = <<>>
    /\ total = NilMap
    /\ excluded = <<>>
    /\ ranked = <<>>
    /\ printed = NotPrinted
    /\ file = NoDoc
    /\ err = NoError

\* ---------------------------------------------------------------- actions
exitWith(msg, repo) ==
    /\ err' = [msg |-> msg, repo |-> repo]
    /\ pc' = "exit"

\* main, lines 54-63: the configuration is loaded and merged
Start ==
    /\ pc = "start"
    /\ \E loaded \in BOOLEAN, merged \in Configs :
          IF ~loaded
          THEN exitWith("read config", "") /\ UNCHANGED cfg
          ELSE /\ cfg' = merged
               /\ IF merged.Username = ""
                  THEN exitWith("missing -username", "")
                  ELSE pc' = "fetchRepos" /\ UNCHANGED err
    /\ UNCHANGED <<repos, filtered, idx, acc, lookups, total, excluded, ranked,
                   printed, file>>

\* main, lines 67-70
FetchRepos ==
    /\ pc = "fetchRepos"
    /\ \E ok \in BOOLEAN, rs \in RepoLists :
          IF ~ok
          THEN exitWith("request failed", "") /\ UNCHANGED repos
          ELSE repos' = rs /\ pc' = "filter" /\ UNCHANGED err
    /\ UNCHANGED <<cfg, filtered, idx, acc, lookups, total, excluded, ranked,
                   printed, file>>

KeepsArchived(c, r) == ~(~c.IncludeForks /\ r.Fork)

\* the filter of main's loop, lines 74-79: is repository r kept?
Keeps(c, r) ==
    /\ ~(~c.IncludeForks /\ r.Fork)
    /\ ~(~c.IncludeArchived /\ r.Archived)

RECURSIVE FilterRepos(_, _)
FilterRepos(c, rs) ==
    IF rs = <<>>
    THEN <<>>
    ELSE IF Keeps(c, Head(rs))
         THEN <<Head(rs)>> \o FilterRepos(c, Tail(rs))
         ELSE FilterRepos(c, Tail(rs))

\* main, lines 72-85, and the entry into fetchLanguages, lines 133-134
Filter ==
    /\ pc = "filter"
    /\ filtered' = FilterRepos(cfg, repos)
    /\ IF Len(filtered') = 0
       THEN exitWith("no repositories after filtering", "")
       ELSE pc' = "fetchLanguages" /\ UNCHANGED err
    /\ idx' = 1
    /\ acc' = EmptyMap
    /\ UNCHANGED <<cfg, repos, lookups, total, excluded, ranked, printed, file>>

FetchFailPartial(a) == [nil |-> FALSE, m |-> a]

\* what fetchLanguages returns as its map when a lookup fails, line 140
FetchFailResult(a) == NilMap

\* fetchLanguages, lines 136-145: one turn of the loop
Lookup(answers) ==
    /\ pc = "fetchLanguages"
    /\ idx <= Len(filtered)
    /\ \E ans \in answers :
          /\ lookups' = Append(lookups, [repo |-> filtered[idx].FullName, ans |-> ans])
          /\ IF ~ans.ok
             THEN /\ total' = FetchFailResult(acc)
                  /\ exitWith("languages for", filtered[idx].FullName)
                  /\ UNCHANGED <<idx, acc>>
             ELSE /\ acc' = MergeLangs(acc, ans.langs)
                  /\ idx' = idx + 1
                  /\ UNCHANGED <<total, err, pc>>
    /\ UNCHANGED <<cfg, repos, filtered, excluded, ranked, printed, file>>

\* fetchLanguages, line 147, and main, lines 87-90
FetchReturn ==
    /\ pc = "fetchLanguages"
    /\ idx > Len(filtered)
    /\ total' = [nil |-> FALSE, m |-> acc]
    /\ pc' = "applyExcludes"
    /\ UNCHANGED <<cfg, repos, filtered, idx, acc, lookups, excluded, ranked,
                   printed, file, err>>

\* main, line 92
ApplyExcludes ==
    /\ pc = "applyExcludes"
    /\ \E order \in IterOrders(total.m) :
          LET r == applyExcludes(total.m, cfg.Exclude, order)
          IN /\ total' = [nil |-> FALSE, m |-> r.total]
             /\ excluded' = r.removed
    /\ pc' = "rank"
    /\ UNCHANGED <<cfg, repos, filtered, idx, acc, lookups, ranked, printed, file, err>>

\* main, line 93
Rank ==
    /\ pc = "rank"
    /\ \E order \in IterOrders(total.m) : ranked' = rankLanguages(total.m, order)
    /\ pc' = "collapse"
    /\ UNCHANGED <<cfg, repos, filtered, idx, acc, lookups, total, excluded,
                   printed, file, err>>

\* main, lines 94-96
Collapse ==
    /\ pc = "collapse"
    /\ ranked' = IF cfg.Top > 0 /\ cfg.Top < Len(ranked)
                 THEN collapseOthers(ranked, cfg.Top, cfg.ShowOther)
                 ELSE ranked
    /\ pc' = "printTable"
    /\ UNCHANGED <<cfg, repos, filtered, idx, acc, lookups, total, excluded,
                   printed, file, err>>

\* collapseOthers called on its own, lines 377-394
CollapseCall ==
    /\ pc = "collapse"
    /\ ranked' = collapseOthers(ranked, cfg.Top, cfg.ShowOther)
    /\ pc' = "printTable"
    /\ UNCHANGED <<cfg, repos, filtered, idx, acc, lookups, total, excluded,
                   printed, file, err>>

\* main, line 98
PrintTable ==
    /\ pc = "printTable"
    /\ printed' = [done |-> TRUE, rows |-> ranked]
    /\ pc' = "writeSVG"
    /\ UNCHANGED <<cfg, repos, filtered, idx, acc, lookups, total, excluded, ranked,
                   file, err>>

\* main, lines 100-102: writeSVG, whose MkdirAll or WriteFile may fail
WriteSVG ==
    /\ pc = "writeSVG"
    /\ LET r == writeSVG(ranked, excluded)
       IN IF r.err # NoErr
          THEN exitWith(r.err, "") /\ UNCHANGED file
          ELSE \E written \in BOOLEAN :
                  IF written
                  THEN file' = r.doc /\ pc' = "done" /\ UNCHANGED err
                  ELSE exitWith(WriteErr, "") /\ UNCHANGED file
    /\ UNCHANGED <<cfg, repos, filtered, idx, acc, lookups, total, excluded, ranked,
                   printed>>

Next ==
    \/ Start
    \/ FetchRepos
    \/ Filter
    \/ Lookup(PipeAnswers)
    \/ FetchReturn
    \/ ApplyExcludes
    \/ Rank
    \/ Collapse
    \/ PrintTable
    \/ WriteSVG

Spec == Init /\ [][Next]_vars

\* ------------------------------------------- the operations on their own
\* A run that has reached a given place of main with one repository looked up:
\* the state main is in there when that repository's answer was m and the
\* configuration c.
Reached(place, c, m) ==
    /\ pc = place
    /\ cfg = c
    /\ repos = <<[FullName |-> RepoNames[1], Fork |-> FALSE, Archived |-> FALSE]>>
    /\ filtered = repos
    /\ idx = 2
    /\ acc = m
    /\ lookups = <<[repo |-> RepoNames[1], ans |-> Answer(m)]>>
    /\ file = NoDoc
    /\ err = NoError

UnitConfigs(excludeLists) ==
    [Username : {"octocat"}, IncludeForks : {FALSE}, IncludeArchived : {FALSE},
     Top : -1..MaxTop, ShowOther : BOOLEAN, Exclude : excludeLists]

sG == <<71>>
RankNames == {sC, sG, sGo, sgo}

\* rankLanguages, then main's bucketing, for every map over RankNames
InitRank ==
    \E c \in UnitConfigs({<<>>}), m \in LangMaps(RankNames, MaxBytes) :
        /\ Reached("rank", c, m)
        /\ total = [nil |-> FALSE, m |-> m]
        /\ excluded = <<>>
        /\ ranked = <<>>
        /\ printed = NotPrinted

NextRank == Rank \/ Collapse

SpecRank == InitRank /\ [][NextRank]_vars

\* collapseOthers for every ranked sequence over RankNames, every top, either flag
InitCollapse ==
    \E c \in UnitConfigs({<<>>}), m \in LangMaps(RankNames, MaxBytes) :
        /\ Reached("collapse", c, m)
        /\ total = [nil |-> FALSE, m |-> m]
        /\ excluded = <<>>
        /\ ranked = rankLanguages(m, CHOOSE o \in IterOrders(m) : TRUE)
        /\ printed = NotPrinted

NextCollapse == CollapseCall \/ PrintTable

SpecCollapse == InitCollapse /\ [][NextCollapse]_vars

\* fetchLanguages for up to MaxFetch repositories and every map of two names to
\* positive byte counts
FetchAnswers ==
    {Fail} \cup {Answer(m) : m \in {f \in LangMaps({sGo, stex}, MaxBytes) :
                                        \A l \in DOMAIN f : f[l] > 0}}

InitFetch ==
    \E n \in 1..MaxFetch :
        /\ pc = "fetchLanguages"
        /\ cfg = [NoConfig EXCEPT !.Username = "octocat"]
        /\ repos = [i \in 1..n |->
                       [FullName |-> RepoNames[i], Fork |-> FALSE, Archived |-> FALSE]]
        /\ filtered = repos
        /\ idx = 1
        /\ acc = EmptyMap
        /\ lookups = <<>>
        /\ total = NilMap
        /\ excluded = <<>>
        /\ ranked = <<>>
        /\ printed = NotPrinted
        /\ file = NoDoc
        /\ err = NoError

NextFetch == Lookup(FetchAnswers) \/ FetchReturn

SpecFetch == InitFetch /\ [][NextFetch]_vars

\* applyExcludes for every map over ExclNames and every list of up to two terms
ExclNames == {sGo, sTeX, stex, sTex}
ExclTerms == {sTeX, stex, sgo, sC}
ExclArgs == UNION {[1..n -> ExclTerms] : n \in 0..2}

InitExcl ==
    \E c \in UnitConfigs(ExclArgs), m \in LangMaps(ExclNames, MaxBytes) :
        /\ c.Top = 0 /\ c.ShowOther
        /\ Reached("applyExcludes", c, m)
        /\ total = [nil |-> FALSE, m |-> m]
        /\ excluded = <<>>
        /\ ranked = <<>>
        /\ printed = NotPrinted

NextExcl == ApplyExcludes \/ Rank

SpecExcl == InitExcl /\ [][NextExcl]_vars

\* writeSVG for ranked sequences of up to MaxRanked entries
RenderName(i) == <<64 + i>>
RenderBytes == 0..MaxBytes \cup {BigBytes}

\* the number of entries that the counts c give to the byte values in S
RECURSIVE CountSum(_, _)
CountSum(S, c) ==
    IF S = {}
    THEN 0
    ELSE LET u == CHOOSE v \in S : TRUE IN c[u] + CountSum(S \ {u}, c)

\* the entries that come before those of byte value v in a ranked sequence
Above(c, v) == CountSum({u \in RenderBytes : u > v}, c)

\* the ranked sequences of up to MaxRanked entries with byte counts in
\* RenderBytes: bytes descending, c[v] entries of value v, names ascending
RenderInputs ==
    {[i \in 1..CountSum(RenderBytes, c) |->
         [Lang |-> RenderName(i),
          Bytes |-> CHOOSE v \in RenderBytes :
                       Above(c, v) < i /\ i <= Above(c, v) + c[v]]] :
       c \in {k \in [RenderBytes -> 0..MaxRanked] :
                 CountSum(RenderBytes, k) <= MaxRanked}}

InitSVG ==
    \E r \in RenderInputs, ex \in {<<>>, <<sTeX>>} :
        LET c == [NoConfig EXCEPT !.Username = "octocat", !.Exclude = ex]
            kept == [l \in {r[i].Lang : i \in DOMAIN r} |->
                        r[CHOOSE i \in DOMAIN r : r[i].Lang = l].Bytes]
        IN /\ Reached("writeSVG", c, IF ex = <<>> THEN kept ELSE kept @@ (sTeX :> 1))
           /\ total = [nil |-> FALSE, m |-> kept]
           /\ excluded = ex
           /\ ranked = r
           /\ printed = [done |-> TRUE, rows |-> r]

NextSVG == WriteSVG

SpecSVG == InitSVG /\ [][NextSVG]_vars

\* ================================================================ claims
\* the sum of the byte counts of map m
RECURSIVE MapSum(_)
MapSum(m) ==
    IF DOMAIN m = {}
    THEN 0
    ELSE LET l == CHOOSE k \in DOMAIN m : TRUE
         IN m[l] + MapSum([k \in DOMAIN m \ {l} |-> m[k]])

\* C1: rankLanguages returns every entry of the map exactly once, by
\* descending byte count, equal counts by ascending name, and returns the
\* same sequence whatever the order in which the map is iterated.
C1_RankTotalOrder ==
    pc = "collapse" =>
        /\ Len(ranked) = Cardinality(DOMAIN total.m)
        /\ \A l \in DOMAIN total.m :
              \E i \in DOMAIN ranked :
                 ranked[i] = [Lang |-> l, Bytes |-> total.m[l]]
        /\ \A i \in 1..(Len(ranked) - 1) :
              /\ ranked[i].Bytes >= ranked[i + 1].Bytes
              /\ ranked[i].Bytes = ranked[i + 1].Bytes
                    => StrLess(ranked[i].Lang, ranked[i + 1].Lang)
        /\ \A o \in IterOrders(total.m) : rankLanguages(total.m, o) = ranked

\* a ranking with a tie and a strict descent among at least three entries
C1_Witness ==
    /\ pc = "collapse"
    /\ Len(ranked) >= 3
    /\ \E i \in 1..(Len(ranked) - 1) : ranked[i].Bytes = ranked[i + 1].Bytes
    /\ \E i \in 1..(Len(ranked) - 1) : ranked[i].Bytes > ranked[i + 1].Bytes

Cut == cfg.Top > 0 /\ cfg.Top < Cardinality(DOMAIN total.m)

\* C2 as stated: whatever top and the show-other flag, the sequence handed to
\* printTable and writeSVG carries the total bytes of the post-exclude aggregate.
C2_SumPreservedAlways ==
    pc = "printTable" => SumBytes(ranked) = MapSum(total.m)

\* C2 amended: the total is preserved when the show-other flag is set or
\* nothing is cut; with the flag off and top below the length, the sequence is
\* the first top entries alone and the bytes of the others are dropped.
C2_SumPreservedWithOther ==
    pc = "printTable" =>
        /\ (cfg.ShowOther \/ ~Cut) => SumBytes(ranked) = MapSum(total.m)
        /\ (~cfg.ShowOther /\ Cut) =>
              /\ Len(ranked) = cfg.Top
              /\ \A o \in IterOrders(total.m) :
                    /\ ranked = SubSeq(rankLanguages(total.m, o), 1, cfg.Top)
                    /\ SumBytes(ranked) + SumBytes(SubSeq(rankLanguages(total.m, o),
                                              cfg.Top + 1, Cardinality(DOMAIN total.m)))
                          = MapSum(total.m)

\* an "Other" entry has been appended after top kept entries
C2_Witness ==
    /\ pc = "printTable"
    /\ cfg.ShowOther
    /\ Cut
    /\ Len(ranked) = cfg.Top + 1
    /\ ranked[Len(ranked)].Lang = sOther
    /\ Cardinality(DOMAIN total.m) >= cfg.Top + 2

\* the sequence collapseOthers was called on in SpecCollapse
Before == rankLanguages(total.m, CHOOSE o \in IterOrders(total.m) : TRUE)

\* C5: collapseOthers returns r unchanged when top <= 0 or top >= len(r);
\* otherwise the first top entries in order, followed by one "Other" entry
\* with the summed bytes of the rest when the flag is set and that sum is
\* positive, and by nothing otherwise; "Other" is the last element.
C5_CollapseShape ==
    pc = "printTable" =>
        LET r == Before
            top == cfg.Top
            rest == SumBytes(SubSeq(r, top + 1, Len(r)))
        IN IF top <= 0 \/ top >= Len(r)
           THEN ranked = r
           ELSE /\ \A i \in 1..top : ranked[i] = r[i]
                /\ IF cfg.ShowOther /\ rest > 0
                   THEN /\ Len(ranked) = top + 1
                        /\ ranked[top + 1] = [Lang |-> sOther, Bytes |-> rest]
                   ELSE Len(ranked) = top

\* "Other" is last although it holds more bytes than the entry before it
C5_Witness ==
    /\ pc = "printTable"
    /\ Len(ranked) = cfg.Top + 1
    /\ Len(ranked) >= 2
    /\ ranked[Len(ranked)].Lang = sOther
    /\ ranked[Len(ranked)].Bytes > ranked[Len(ranked) - 1].Bytes

\* the sum of the widths of the segments in s
RECURSIVE SumWidths(_)
SumWidths(s) == IF s = <<>> THEN 0 ELSE Head(s).width + SumWidths(Tail(s))

\* C3: for a non-empty ranked sequence with positive total bytes, the bar
\* segments written are contiguous from x = 28 and their widths sum to the bar
\* width 584, also when the last entry's proportional width is zero.
C3_BarFillsWidth ==
    (pc = "done" /\ ~file.empty) =>
        /\ SumWidths(file.segments) = barWidth
        /\ Len(file.segments) > 0 => file.segments[1].x = barX
        /\ \A i \in 1..(Len(file.segments) - 1) :
              file.segments[i + 1].x = file.segments[i].x + file.segments[i].width

\* the languages of the aggregate that some exclude term names, whatever the case
Matched ==
    {l \in DOMAIN acc :
        \E k \in DOMAIN cfg.Exclude : ToLower(cfg.Exclude[k]) = ToLower(l)}

\* C4: applyExcludes removes exactly the languages that an exclude term names
\* case-insensitively and returns exactly their names, as spelled in the
\* aggregate, one per removed language, in lexical order.
C4_ExcludedAsInAggregate ==
    pc = "rank" =>
        /\ DOMAIN total.m = DOMAIN acc \ Matched
        /\ \A l \in DOMAIN total.m : total.m[l] = acc[l]
        /\ Len(excluded) = Cardinality(Matched)
        /\ {excluded[i] : i \in DOMAIN excluded} = Matched
        /\ \A i \in 1..(Len(excluded) - 1) : StrLess(excluded[i], excluded[i + 1])

LookupErr == "languages for"

\* C6: when a language lookup fails, fetchLanguages returns an error naming
\* that repository and no map, the lookup is not repeated, no other
\* repository is looked up afterwards, and the run ends with no table printed
\* and no image written.
C6_LookupFailureAborts ==
    /\ \A i \in DOMAIN lookups :
          /\ lookups[i].repo = filtered[i].FullName
          /\ ~lookups[i].ans.ok =>
                /\ i = Len(lookups)
                /\ pc = "exit"
                /\ err = [msg |-> LookupErr, repo |-> lookups[i].repo]
                /\ total = NilMap
                /\ ~printed.done
                /\ file = NoDoc
    /\ \A i, j \in DOMAIN lookups : i # j => lookups[i].repo # lookups[j].repo
    /\ err.msg = LookupErr => (lookups # <<>> /\ ~lookups[Len(lookups)].ans.ok)

\* the second lookup failed, after the first had put sums in the map
C6_Witness ==
    /\ pc = "exit"
    /\ err.msg = LookupErr
    /\ Len(lookups) = 2
    /\ DOMAIN acc # {}

EmptyErr == "no repositories after filtering"

\* main is past its filter loop
PastFilter ==
    /\ pc \notin {"start", "fetchRepos", "filter"}
    /\ err.msg \notin {"read config", "missing -username", "request failed"}

\* C7: when every fetched repository is a fork with include-forks off or
\* archived with include-archived off (or none was fetched), the run fails
\* with the empty-result error before any language lookup, and writes no image.
C7_EmptyAfterFilter ==
    /\ (PastFilter /\
          \A i \in DOMAIN repos :
             \/ (repos[i].Fork /\ ~cfg.IncludeForks)
             \/ (repos[i].Archived /\ ~cfg.IncludeArchived))
          => /\ pc = "exit"
             /\ err.msg = EmptyErr
             /\ lookups = <<>>
             /\ ~printed.done
             /\ file = NoDoc
    /\ err.msg = EmptyErr => (PastFilter /\ filtered = <<>> /\ lookups = <<>>)

\* the run failed on a list holding a fork and an archived repository
C7_Witness ==
    /\ pc = "exit"
    /\ err.msg = EmptyErr
    /\ \E i, j \in DOMAIN repos :
          /\ repos[i].Fork /\ ~repos[i].Archived
          /\ repos[j].Archived /\ ~repos[j].Fork

\* writeSVG has been called and has returned
AfterWriteSVG == printed.done /\ pc \in {"done", "exit"}

\* C8: writeSVG returns the "no data" error and writes no file when the ranked
\* sequence is empty or its bytes sum to zero, as when the exclude terms
\* removed every language; a file is written only for a non-empty sequence
\* with positive total bytes.
C8_NoDataNoFile ==
    /\ (AfterWriteSVG /\ (Len(ranked) = 0 \/ SumBytes(ranked) = 0))
          => /\ pc = "exit"
             /\ err.msg = NoDataErr
             /\ file = NoDoc
    /\ file # NoDoc => (Len(ranked) > 0 /\ SumBytes(ranked) > 0 /\ pc = "done")
    /\ err.msg = NoDataErr => (Len(ranked) = 0 \/ SumBytes(ranked) = 0)

\* the exclude terms removed every language of a non-empty aggregate
C8_Witness ==
    /\ AfterWriteSVG
    /\ err.msg = NoDataErr
    /\ DOMAIN acc # {}
    /\ Len(excluded) > 0
    /\ DOMAIN total.m = {}

\* the language maps answered so far, in the order of the lookups
Answered == [i \in DOMAIN lookups |-> lookups[i].ans.langs]

Perms(n) == {p \in [1..n -> 1..n] : \A i, j \in 1..n : i # j => p[i] # p[j]}

\* the bytes of language l summed over the maps in ms
RECURSIVE LangSum(_, _)
LangSum(ms, l) ==
    IF ms = <<>>
    THEN 0
    ELSE (IF l \in DOMAIN Head(ms) THEN Head(ms)[l] ELSE 0) + LangSum(Tail(ms), l)

\* C9: with every lookup succeeding, fetchLanguages yields the map that any
\* permutation of the repositories would yield, and that map gives each
\* language the sum of its bytes over all repositories.
C9_AggregationCommutes ==
    (pc = "applyExcludes") =>
        /\ \A p \in Perms(Len(Answered)) :
              Aggregate(EmptyMap, [i \in DOMAIN Answered |-> Answered[p[i]]]) = total.m
        /\ DOMAIN total.m = UNION {DOMAIN Answered[i] : i \in DOMAIN Answered}
        /\ \A l \in DOMAIN total.m : total.m[l] = LangSum(Answered, l)
        /\ ~total.nil
        /\ Len(Answered) = Len(filtered)

\* three repositories, two of them with different maps that share a language
C9_Witness ==
    /\ pc = "applyExcludes"
    /\ Len(Answered) >= 3
    /\ \E i, j \in DOMAIN Answered :
          /\ i < j
          /\ Answered[i] # Answered[j]
          /\ \E l \in DOMAIN Answered[i] \cap DOMAIN Answered[j] :
                Answered[i][l] > 0 /\ Answered[j][l] > 0 /\ total.m[l] > Answered[j][l]

GridBottom == file.layout.gridTop + file.layout.gridHeight

\* C10 as stated: whenever a footnote is written, its y is at least the bottom
\* edge of the tile grid and at most height - 18, for any number of entries.
C10_NoteBelowGridAlways ==
    (pc = "done" /\ file.hasNote) =>
        /\ file.layout.noteY >= GridBottom
        /\ file.layout.noteY <= height - noteMargin

\* C10 amended: the footnote's y is at most height - 18 for any number of
\* entries; it is at or below the grid's bottom edge when the grid has at
\* most two rows (at most six entries); with seven entries or more (three
\* rows or more) it is clipped to height - 18, which is above the grid's
\* bottom edge and falls within the third tile row.
C10_NoteClipped ==
    (pc = "done" /\ file.hasNote) =>
        /\ file.layout.noteY <= height - noteMargin
        /\ Len(file.tiles) <= 2 * maxCols => file.layout.noteY >= GridBottom
        /\ Len(file.tiles) > 2 * maxCols =>
              /\ file.layout.noteY = height - noteMargin
              /\ file.layout.noteY < GridBottom
              /\ file.tiles[2 * maxCols + 1].y <= file.layout.noteY
              /\ file.layout.noteY <= file.tiles[2 * maxCols + 1].y + tileHeight
              /\ \A i \in DOMAIN file.tiles :
                    i > 3 * maxCols => file.tiles[i].y > file.layout.noteY

\* a footnote written into a grid of four rows: it lies in the third row,
\* above the last
C10_Witness ==
    /\ pc = "done"
    /\ file.hasNote
    /\ Len(file.tiles) > 3 * maxCols
    /\ file.layout.rows = 4

====
